---- MODULE Spec2Model ----
(***************************************************************************)
(* Model of "minikube delete" (cmd/minikube/cmd/delete.go): runDelete,     *)
(* deleteProfile, uninstallKubernetes, deleteProfileDirectory and          *)
(* killMountProcess.  One action per statement group of the source; the    *)
(* outcomes of the external collaborators (config store, machine API,      *)
(* bootstrapper, kubeconfig editor, filesystem, process table) are inputs  *)
(* drawn with \E.  os.Stat reports the modelled filesystem truthfully; the *)
(* I/O calls whose error the source branches on (ReadFile, Remove,         *)
(* RemoveAll, FindProcess, Kill, ...) may fail nondeterministically.       *)
(***************************************************************************)
EXTENDS Integers, Sequences, FiniteSets, TLC

\* ---------------------------------------------------------------- bounds
NumProfiles == 2
MaxPid == 1
MaxRuns == 2
MaxReaps == 2

Profiles == 1..NumProfiles
Pids == 1..MaxPid

\* ------------------------------------------------------------- constants
DriverNone == "none"
Drivers == {DriverNone, "vm"}
Executables == {"minikube", "other"}
NotRunning == ""

ExitSuccess == "exitSuccess"
ExitFailure == "exitFailure"
Exits == {ExitSuccess, ExitFailure}

\* Contents of the mount-process PID file: text that parses as a PID, or not.
Contents == {[parses |-> TRUE, pid |-> p] : p \in Pids} \cup {[parses |-> FALSE, pid |-> 0]}

\* Profile lists as the enumeration returns them: unique names in directory
\* (ascending) order.
ProfileLists ==
    {s \in UNION {[1..n -> Profiles] : n \in 0..NumProfiles} :
        \A x, y \in DOMAIN s : x < y => s[x] < s[y]}

VARIABLES
    \* persisted state and operating-system state
    machineDir,     \* profiles whose <root>/machines/<p> directory exists
    profileDir,     \* profiles whose <root>/profiles/<p> directory exists
    metadata,       \* profiles with a persisted metadata entry
    creds,          \* profiles with an entry (context) in the kubeconfig
    pointer,        \* active-profile pointer: <<>> or <<p>>
    pidFile,        \* mount-process PID file: <<>> or <<content>>
    procs,          \* process table: pid -> executable name, NotRunning if none
    rootExists,     \* the configuration root directory exists
    \* state of the running process
    pc,             \* position in runDelete / deleteProfile
    final,          \* how the process ended, "none" while it runs
    purgeFlag, forceFlag,
    known,          \* the profiles the enumeration collaborator knows
    validProfiles, listErr,
    i,              \* index of the range loop
    cur,            \* the parameter of deleteProfile
    handles,        \* open machine-API handles
    cc,             \* the configuration deleteProfile loaded
    \* history
    run,            \* invocations of the command so far
    started,        \* profiles deleteProfile was called for in this invocation
    log,            \* steps of the current deleteProfile call, in order
    lastErr,        \* outcome of the step executed last
    fails,          \* steps of the current call whose error was only printed
    hostReq,        \* machines DeleteHost was requested for in this call
    hostOut,        \* styles of the messages printed for DeleteHost's error in this call
    kills,          \* PIDs Kill was called on in this invocation
    mutated,        \* persisted or OS state changed in this invocation
    touched,        \* profiles whose artifacts changed in this call
    purged,         \* RemoveAll of the root ran in this invocation
    completed,      \* profiles for which deleteProfile has returned normally
    reaps           \* records of the killMountProcess calls under test

world == <<machineDir, profileDir, metadata, creds, pointer, pidFile, procs, rootExists>>
flags == <<purgeFlag, forceFlag, known, validProfiles, listErr>>
vars == <<world, flags, pc, final, i, cur, handles, cc, run, started, log, lastErr, fails, hostReq, hostOut,
          kills, mutated, touched, purged, completed, reaps>>

NoConfig == [err |-> "none", driver |-> ""]
\* ------------------------------------------------------- pure operators

\* Mutant: the error of Atoi is dropped and the contents are read as PID 1.
AtoiNeverFails(c) == [err |-> FALSE, pid |-> IF c.parses THEN c.pid ELSE 1]

\* strconv.Atoi on the PID file's contents.
Atoi(c) == [err |-> ~c.parses, pid |-> IF c.parses THEN c.pid ELSE 0]

\* Mutant: a single profile is enough for the guard.
GuardTriggersOnOneProfile(err, pu, n, fo) == ~err /\ pu /\ n >= 1 /\ ~fo

\* The multi-profile purge guard of runDelete.
GuardTriggers(err, pu, n, fo) == ~err /\ pu /\ n > 1 /\ ~fo

\* Mutant: the loop stops one profile short.
LoopTargetSkipsLast(idx, n) == IF idx < n THEN "Set" ELSE "purge"

\* Mutant: the loop never leaves for the purge block.
LoopTargetNeverEnds(idx, n) == "Set"

\* The range loop of runDelete followed by the purge block.
LoopTarget(idx, n) == IF idx <= n THEN "Set" ELSE "purge"

\* Mutant: the loop does not advance.
NextProfileRepeats(idx) == idx

\* The range loop moves to the next element when deleteProfile returns.
NextProfile(idx) == idx + 1

\* Mutant: the handle is never released.
apiCloseLeaks(h) == h

\* The deferred api.Close(): the handle of this call is released.
apiClose(h) == h - 1

\* Mutant: the driver is not looked at.
NeedsUninstallAnyDriver(c) == c.err = "nil"

\* The uninstall condition of deleteProfile.
NeedsUninstall(c) == c.err = "nil" /\ c.driver = DriverNone

\* Mutant: a printed error ends the process.
AfterSoftStepAborts(next, res) == IF res = "err" THEN ExitFailure ELSE next

\* A step whose error is only printed (Load, uninstallKubernetes,
\* killMountProcess, DeleteHost): deleteProfile goes on.
AfterSoftStep(next, res) == next

\* Mutant: the error is dropped.
AfterFatalStepIgnoresError(next, res) == next

\* A step followed by exit.WithError on failure.
AfterFatalStep(next, res) == IF res = "err" THEN ExitFailure ELSE next

\* Mutant: a missing metadata entry counts as deleted.
AfterDeleteProfileNotFoundGoesOn(res) == IF res = "err" THEN ExitFailure ELSE "DeleteContext"

\* pkg_config.DeleteProfile: os.Exit(0) on not-found, exit.WithError on any
\* other error.
AfterDeleteProfile(res) ==
    IF res = "notexist" THEN ExitSuccess
    ELSE IF res = "err" THEN ExitFailure ELSE "DeleteContext"

\* Mutant: the pointer is cleared before the credentials entry is removed.
AfterStepUnsetsFirst(step, res, c) ==
    CASE step = "Set" -> AfterFatalStep("NewAPIClient", res)
      [] step = "NewAPIClient" -> AfterFatalStep("Load", res)
      [] step = "Load" ->
            AfterSoftStep(IF NeedsUninstall(c) THEN "uninstallKubernetes"
                          ELSE "killMountProcess", res)
      [] step = "uninstallKubernetes" -> AfterSoftStep("killMountProcess", res)
      [] step = "killMountProcess" -> AfterSoftStep("DeleteHost", res)
      [] step = "DeleteHost" -> AfterSoftStep("deleteProfileDirectory", res)
      [] step = "deleteProfileDirectory" -> AfterFatalStep("DeleteProfile", res)
      [] step = "DeleteProfile" ->
            IF AfterDeleteProfile(res) = "DeleteContext" THEN "Unset"
            ELSE AfterDeleteProfile(res)
      [] step = "Unset" -> AfterFatalStep("DeleteContext", res)
      [] step = "DeleteContext" -> AfterFatalStep("Close", res)

\* Control flow of deleteProfile: the position after `step` ended with `res`
\* ("ok", "err" or "notexist"); c is the loaded configuration.
AfterStep(step, res, c) ==
    CASE step = "Set" -> AfterFatalStep("NewAPIClient", res)
      [] step = "NewAPIClient" -> AfterFatalStep("Load", res)
      [] step = "Load" ->
            AfterSoftStep(IF NeedsUninstall(c) THEN "uninstallKubernetes"
                          ELSE "killMountProcess", res)
      [] step = "uninstallKubernetes" -> AfterSoftStep("killMountProcess", res)
      [] step = "killMountProcess" -> AfterSoftStep("DeleteHost", res)
      [] step = "DeleteHost" -> AfterSoftStep("deleteProfileDirectory", res)
      [] step = "deleteProfileDirectory" -> AfterFatalStep("DeleteProfile", res)
      [] step = "DeleteProfile" -> AfterDeleteProfile(res)
      [] step = "DeleteContext" -> AfterFatalStep("Unset", res)
      [] step = "Unset" -> AfterFatalStep("Close", res)

\* Mutant: a missing host is reported like any other failure.
DeleteHostMessagesAllFailures(o) == IF o = "ok" THEN {} ELSE {"FailureType", "Notice"}

\* The styles of the messages out.T prints for the error of cluster.DeleteHost:
\* out.Meh for mcnerror.ErrHostDoesNotExist, out.FailureType and out.Notice
\* for any other error, nothing for nil.
DeleteHostMessages(o) ==
    CASE o = "ok" -> {}
      [] o = "absent" -> {"Meh"}
      [] OTHER -> {"FailureType", "Notice"}

\* Mutant: the parents of the two directories are removed, every profile's
\* directories with them.
deleteProfileDirectoryWholeTree(profile, md, pd, mOk, pOk) ==
    IF md # {} /\ ~mOk
    THEN [machineDir |-> md, profileDir |-> pd, res |-> "err"]
    ELSE IF pd # {} /\ ~pOk
         THEN [machineDir |-> {}, profileDir |-> pd, res |-> "err"]
         ELSE [machineDir |-> {}, profileDir |-> {}, res |-> "ok"]

\* Mutant: only the machine directory is removed.
deleteProfileDirectoryMachineOnly(profile, md, pd, mOk, pOk) ==
    IF profile \in md /\ ~mOk
    THEN [machineDir |-> md, profileDir |-> pd, res |-> "err"]
    ELSE [machineDir |-> md \ {profile}, profileDir |-> pd, res |-> "ok"]

\* deleteProfileDirectory: remove the machine directory, then the profile
\* directory, each only if os.Stat finds it; a failed RemoveAll exits.
deleteProfileDirectory(profile, md, pd, mOk, pOk) ==
    IF profile \in md /\ ~mOk
    THEN [machineDir |-> md, profileDir |-> pd, res |-> "err"]
    ELSE IF profile \in pd /\ ~pOk
         THEN [machineDir |-> md \ {profile}, profileDir |-> pd, res |-> "err"]
         ELSE [machineDir |-> md \ {profile}, profileDir |-> pd \ {profile}, res |-> "ok"]

\* Outcomes of the calls killMountProcess makes.  fail: the calls that fail
\* if reached (the function returns at the first failure, except that a failed
\* Kill is followed by os.Remove); gone: the process has left the process
\* table when Kill returns.
FailingCalls ==
    {{}, {"ReadFile"}, {"ps.FindProcess"}, {"os.FindProcess"}, {"Kill"}, {"Remove"},
     {"Kill", "Remove"}}
ReapIO == [fail : FailingCalls, gone : BOOLEAN]
Fails(io, call) == call \in io.fail

\* Mutant: every PID is taken to be running (what os.FindProcess would say).
EntryNeverNil(pt, pid) == FALSE

\* Mutant: a process that is not the helper is taken to be stale.
EntryIsNilUnlessHelper(pt, pid) == pt[pid] # "minikube"

\* ps.FindProcess(pid) returned no entry (entry == nil).
EntryIsNil(pt, pid) == pt[pid] = NotRunning

\* Mutant: a failed Kill is reported without touching the PID file.
killBranchKeepsFile(pf, pt, pid, io) ==
    LET after == IF io.gone THEN [pt EXCEPT ![pid] = NotRunning] ELSE pt
    IN  [pidFile |-> pf, procs |-> after, kills |-> {pid},
         err |-> IF Fails(io, "Kill") THEN "Kill" ELSE "nil"]

\* Mutant: the PID file is removed after a successful Kill as well.
killBranchRemovesFile(pf, pt, pid, io) ==
    LET after == IF io.gone THEN [pt EXCEPT ![pid] = NotRunning] ELSE pt
    IN  IF Fails(io, "Remove")
        THEN [pidFile |-> pf, procs |-> after, kills |-> {pid},
              err |-> "Removing likely stale unkillable pid"]
        ELSE [pidFile |-> <<>>, procs |-> after, kills |-> {pid},
              err |-> IF Fails(io, "Kill") THEN "Kill" ELSE "nil"]

\* The end of killMountProcess: proc.Kill() on the process found, and the
\* removal of the PID file when Kill fails.
killBranch(pf, pt, pid, io) ==
    LET after == IF io.gone THEN [pt EXCEPT ![pid] = NotRunning] ELSE pt
    IN  IF Fails(io, "Kill")
        THEN IF Fails(io, "Remove")
             THEN [pidFile |-> pf, procs |-> after, kills |-> {pid},
                   err |-> "Removing likely stale unkillable pid"]
             ELSE [pidFile |-> <<>>, procs |-> after, kills |-> {pid}, err |-> "Kill"]
        ELSE [pidFile |-> pf, procs |-> after, kills |-> {pid}, err |-> "nil"]

\* killMountProcess on PID file pf and process table pt.  Returns the new PID
\* file and process table, the PIDs Kill was called on, and the error.
killMountProcess(pf, pt, io) ==
    LET same(e) == [pidFile |-> pf, procs |-> pt, kills |-> {}, err |-> e]
        a == Atoi(pf[1])
    IN  IF pf = <<>> THEN same("nil")
        ELSE IF Fails(io, "ReadFile") THEN same("ReadFile")
        ELSE IF a.err THEN same("error parsing pid")
        ELSE IF Fails(io, "ps.FindProcess") THEN same("ps.FindProcess")
        ELSE IF EntryIsNil(pt, a.pid)
             THEN IF Fails(io, "Remove") THEN same("Removing stale pid")
                  ELSE [pidFile |-> <<>>, procs |-> pt, kills |-> {}, err |-> "nil"]
        ELSE IF Fails(io, "os.FindProcess") THEN same("os.FindProcess")
        ELSE killBranch(pf, pt, a.pid, io)

\* ------------------------------------------------------------ bookkeeping

\* Profiles whose directories, metadata or credentials entry differ between
\* the current and the next state.
Changed ==
    {q \in Profiles :
        \/ (q \in machineDir) # (q \in machineDir')
        \/ (q \in profileDir) # (q \in profileDir')
        \/ (q \in metadata) # (q \in metadata')
        \/ (q \in creds) # (q \in creds')}

Track ==
    /\ mutated' = (mutated \/ world' # world)
    /\ touched' = touched \cup Changed

Goto(t) ==
    /\ pc' = IF t \in Exits THEN "final" ELSE t
    /\ final' = IF t \in Exits THEN t ELSE final

Step(name) == log' = Append(log, name)

\* ------------------------------------------------------------------ Init

\* A fresh installation: every profile has its directories, metadata and
\* credentials entry; no invocation has happened yet.
Fresh ==
    /\ machineDir = Profiles /\ profileDir = Profiles
    /\ metadata = Profiles /\ creds = Profiles
    /\ pointer = <<>>
    /\ rootExists = TRUE
    /\ final = "none"
    /\ purgeFlag = FALSE /\ forceFlag = FALSE
    /\ known = <<>> /\ validProfiles = <<>> /\ listErr = FALSE
    /\ i = 1 /\ cur = 1 /\ handles = 0 /\ cc = NoConfig
    /\ run = 0 /\ started = <<>> /\ log = <<>> /\ lastErr = "none" /\ fails = {}
    /\ hostReq = {} /\ hostOut = {} /\ kills = {} /\ mutated = FALSE /\ touched = {}
    /\ purged = FALSE /\ completed = {} /\ reaps = <<>>

\* The command on a fresh installation whose mount helper is running with
\* its PID recorded.
Init ==
    /\ Fresh
    /\ pc = "idle"
    /\ pidFile = <<[parses |-> TRUE, pid |-> 1]>>
    /\ procs = [p \in Pids |-> "minikube"]

\* --------------------------------------------------------------- runDelete

\* An invocation of the command, the first or one that follows an invocation
\* that returned normally: flags, positional arguments and the profiles known
\* to the enumeration collaborator are inputs.
RunDelete(pu, fo, nargs, kn) ==
    /\ pc = "idle" \/ (pc = "final" /\ final = "normalReturn")
    /\ run < MaxRuns
    /\ run' = run + 1
    /\ purgeFlag' = pu /\ forceFlag' = fo /\ known' = kn
    /\ validProfiles' = <<>> /\ listErr' = FALSE
    /\ i' = 1 /\ cur' = 1 /\ handles' = 0 /\ cc' = NoConfig
    /\ started' = <<>> /\ log' = <<>> /\ lastErr' = "none" /\ fails' = {}
    /\ hostReq' = {} /\ hostOut' = {} /\ kills' = {} /\ mutated' = FALSE /\ touched' = {}
    /\ purged' = FALSE
    /\ IF nargs > 0
       THEN pc' = "final" /\ final' = ExitFailure
       ELSE pc' = "ListProfiles" /\ final' = "none"
    /\ UNCHANGED <<world, completed, reaps>>

\* pkg_config.ListProfiles(): the known profiles, or an error and no list.
ListProfiles(e) ==
    /\ pc = "ListProfiles"
    /\ listErr' = e
    /\ validProfiles' = IF e THEN <<>> ELSE known
    /\ pc' = "guard"
    /\ UNCHANGED <<world, final, purgeFlag, forceFlag, known, i, cur, handles, cc, run,
                   started, log, lastErr, fails, hostReq, hostOut, kills, mutated, touched, purged,
                   completed, reaps>>

Guard ==
    /\ pc = "guard"
    /\ IF GuardTriggers(listErr, purgeFlag, Len(validProfiles), forceFlag)
       THEN pc' = "final" /\ final' = "guardReturn"
       ELSE pc' = "loop" /\ final' = final
    /\ UNCHANGED <<world, flags, i, cur, handles, cc, run, started, log, lastErr, fails, hostReq, hostOut,
                   kills, mutated, touched, purged, completed, reaps>>

Loop ==
    /\ pc = "loop"
    /\ pc' = LoopTarget(i, Len(validProfiles))
    /\ cur' = IF i <= Len(validProfiles) THEN validProfiles[i] ELSE cur
    /\ UNCHANGED <<world, flags, final, i, handles, cc, run, started, log, lastErr, fails, hostReq, hostOut,
                   kills, mutated, touched, purged, completed, reaps>>

\* The purge block: os.RemoveAll(localpath.MiniPath()) takes the machine and
\* profile directories and the PID file with the root.
Purge(ok) ==
    /\ pc = "purge"
    /\ pc' = "final"
    /\ IF ~purgeFlag
       THEN /\ final' = "normalReturn"
            /\ UNCHANGED <<world, purged>>
       ELSE IF ok
            THEN /\ machineDir' = {} /\ profileDir' = {} /\ pidFile' = <<>>
                 /\ rootExists' = FALSE
                 /\ purged' = TRUE
                 /\ final' = "normalReturn"
                 /\ UNCHANGED <<metadata, creds, pointer, procs>>
            ELSE /\ final' = ExitFailure
                 /\ UNCHANGED <<world, purged>>
    /\ UNCHANGED <<flags, i, cur, handles, cc, run, started, log, lastErr, fails, hostReq, hostOut, kills,
                   completed, reaps>>
    /\ Track

\* ----------------------------------------------------------- deleteProfile

\* The machine name the collaborators resolve from the active-profile pointer
\* (pkg_config.GetMachineName, cluster.DeleteHost).
MachineName == {pointer[k] : k \in DOMAIN pointer}

Res(ok) == IF ok THEN "ok" ELSE "err"

\* cmdcfg.Set(MachineProfile, profile)
SetProfile(ok) ==
    /\ pc = "Set"
    /\ pointer' = IF ok THEN <<cur>> ELSE pointer
    /\ Goto(AfterStep("Set", Res(ok), cc))
    /\ started' = Append(started, cur)
    /\ log' = <<"Set">>
    /\ lastErr' = Res(ok)
    /\ fails' = {} /\ hostReq' = {} /\ hostOut' = {}
    /\ cc' = NoConfig
    /\ UNCHANGED <<machineDir, profileDir, metadata, creds, pidFile, procs, rootExists,
                   flags, i, cur, handles, run, kills, purged, completed, reaps>>
    /\ mutated' = (mutated \/ world' # world)
    /\ touched' = Changed

\* machine.NewAPIClient() and defer api.Close()
NewAPIClient(ok) ==
    /\ pc = "NewAPIClient"
    /\ handles' = IF ok THEN handles + 1 ELSE handles
    /\ Goto(AfterStep("NewAPIClient", Res(ok), cc))
    /\ Step("NewAPIClient")
    /\ lastErr' = Res(ok)
    /\ UNCHANGED <<world, flags, i, cur, cc, run, started, fails, hostReq, hostOut, kills, purged,
                   completed, reaps>>
    /\ Track

LoadOutcomes ==
    {[err |-> "nil", driver |-> d] : d \in Drivers}
        \cup {[err |-> e, driver |-> ""] : e \in {"notexist", "other"}}

\* pkg_config.Load(): an error is at most printed.
Load(c) ==
    /\ pc = "Load"
    /\ cc' = c
    /\ Goto(AfterStep("Load", Res(c.err = "nil"), c))
    /\ Step("Load")
    /\ lastErr' = Res(c.err = "nil")
    /\ fails' = IF c.err # "nil" THEN fails \cup {"Load"} ELSE fails
    /\ UNCHANGED <<world, flags, i, cur, handles, run, started, hostReq, hostOut, kills, purged,
                   completed, reaps>>
    /\ Track

\* uninstallKubernetes: look the bootstrapper up, then DeleteCluster; both
\* failures are only printed.
UninstallKubernetes(o) ==
    /\ pc = "uninstallKubernetes"
    /\ Goto(AfterStep("uninstallKubernetes", Res(o = "ok"), cc))
    /\ Step("uninstallKubernetes")
    /\ lastErr' = o
    /\ fails' = IF o # "ok" THEN fails \cup {"uninstallKubernetes"} ELSE fails
    /\ UNCHANGED <<world, flags, i, cur, handles, cc, run, started, hostReq, hostOut, kills, purged,
                   completed, reaps>>
    /\ Track

\* killMountProcess(), its error only printed
KillMount(io) ==
    /\ pc = "killMountProcess"
    /\ LET r == killMountProcess(pidFile, procs, io) IN
        /\ pidFile' = r.pidFile
        /\ procs' = r.procs
        /\ kills' = kills \cup r.kills
        /\ lastErr' = Res(r.err = "nil")
        /\ fails' = IF r.err # "nil" THEN fails \cup {"killMountProcess"} ELSE fails
        /\ Goto(AfterStep("killMountProcess", Res(r.err = "nil"), cc))
    /\ Step("killMountProcess")
    /\ UNCHANGED <<machineDir, profileDir, metadata, creds, pointer, rootExists, flags, i,
                   cur, handles, cc, run, started, hostReq, hostOut, purged, completed, reaps>>
    /\ Track

\* cluster.DeleteHost(api): the host of the active profile; a successful
\* deletion may or may not have removed the machine directory already.
DeleteHost(o, rm) ==
    /\ pc = "DeleteHost"
    /\ hostReq' = hostReq \cup MachineName
    /\ hostOut' = hostOut \cup DeleteHostMessages(o)
    /\ machineDir' = IF o = "ok" /\ rm THEN machineDir \ MachineName ELSE machineDir
    /\ Goto(AfterStep("DeleteHost", Res(o = "ok"), cc))
    /\ Step("DeleteHost")
    /\ lastErr' = o
    /\ fails' = IF o # "ok" THEN fails \cup {"DeleteHost"} ELSE fails
    /\ UNCHANGED <<profileDir, metadata, creds, pointer, pidFile, procs, rootExists, flags,
                   i, cur, handles, cc, run, started, kills, purged, completed, reaps>>
    /\ Track

DeleteProfileDirectory(mOk, pOk) ==
    /\ pc = "deleteProfileDirectory"
    /\ LET r == deleteProfileDirectory(cur, machineDir, profileDir, mOk, pOk) IN
        /\ machineDir' = r.machineDir
        /\ profileDir' = r.profileDir
        /\ lastErr' = r.res
        /\ Goto(AfterStep("deleteProfileDirectory", r.res, cc))
    /\ Step("deleteProfileDirectory")
    /\ UNCHANGED <<metadata, creds, pointer, pidFile, procs, rootExists, flags, i, cur,
                   handles, cc, run, started, fails, hostReq, hostOut, kills, purged, completed, reaps>>
    /\ Track

\* The metadata store's delete: not-found when the entry is absent, else the
\* entry is deleted or another error is returned.
DeleteProfileResult(profile, md, ok) == IF profile \notin md THEN "notexist" ELSE Res(ok)

\* pkg_config.DeleteProfile(profile) and the branches on its error
DeleteProfileMeta(ok) ==
    /\ pc = "DeleteProfile"
    /\ LET res == DeleteProfileResult(cur, metadata, ok) IN
        /\ metadata' = IF res = "ok" THEN metadata \ {cur} ELSE metadata
        /\ lastErr' = res
        /\ Goto(AfterStep("DeleteProfile", res, cc))
    /\ Step("DeleteProfile")
    /\ UNCHANGED <<machineDir, profileDir, creds, pointer, pidFile, procs, rootExists, flags,
                   i, cur, handles, cc, run, started, fails, hostReq, hostOut, kills, purged, completed,
                   reaps>>
    /\ Track

\* kubeconfig.DeleteContext(KubeconfigPath, GetMachineName())
DeleteContext(ok) ==
    /\ pc = "DeleteContext"
    /\ creds' = IF ok THEN creds \ MachineName ELSE creds
    /\ Goto(AfterStep("DeleteContext", Res(ok), cc))
    /\ Step("DeleteContext")
    /\ lastErr' = Res(ok)
    /\ UNCHANGED <<machineDir, profileDir, metadata, pointer, pidFile, procs, rootExists,
                   flags, i, cur, handles, cc, run, started, fails, hostReq, hostOut, kills, purged,
                   completed, reaps>>
    /\ Track

\* cmdcfg.Unset(MachineProfile)
Unset(ok) ==
    /\ pc = "Unset"
    /\ pointer' = IF ok THEN <<>> ELSE pointer
    /\ Goto(AfterStep("Unset", Res(ok), cc))
    /\ Step("Unset")
    /\ lastErr' = Res(ok)
    /\ UNCHANGED <<machineDir, profileDir, metadata, creds, pidFile, procs, rootExists,
                   flags, i, cur, handles, cc, run, started, fails, hostReq, hostOut, kills, purged,
                   completed, reaps>>
    /\ Track

\* Normal return of deleteProfile: the deferred api.Close() runs, the locals
\* of the call are gone, and the range loop of runDelete moves on.
Close ==
    /\ pc = "Close"
    /\ handles' = apiClose(handles)
    /\ completed' = completed \cup {cur}
    /\ i' = NextProfile(i)
    /\ pc' = "loop"
    /\ cc' = NoConfig
    /\ log' = <<>> /\ lastErr' = "none" /\ fails' = {} /\ hostReq' = {} /\ hostOut' = {} /\ touched' = {}
    /\ UNCHANGED <<world, final, flags, cur, run, started, kills, purged, mutated, reaps>>

Next ==
    \/ \E pu, fo \in BOOLEAN, nargs \in 0..1, kn \in ProfileLists : RunDelete(pu, fo, nargs, kn)
    \/ \E e \in BOOLEAN : ListProfiles(e)
    \/ Guard
    \/ Loop
    \/ \E ok \in BOOLEAN : Purge(ok)
    \/ \E ok \in BOOLEAN : SetProfile(ok)
    \/ \E ok \in BOOLEAN : NewAPIClient(ok)
    \/ \E c \in LoadOutcomes : Load(c)
    \/ \E o \in {"ok", "lookupErr", "deleteErr"} : UninstallKubernetes(o)
    \/ \E io \in ReapIO : KillMount(io)
    \/ \E o \in {"ok", "absent", "other"}, rm \in BOOLEAN : DeleteHost(o, rm)
    \/ \E mOk, pOk \in BOOLEAN : DeleteProfileDirectory(mOk, pOk)
    \/ \E ok \in BOOLEAN : DeleteProfileMeta(ok)
    \/ \E ok \in BOOLEAN : DeleteContext(ok)
    \/ \E ok \in BOOLEAN : Unset(ok)
    \/ Close

Spec == Init /\ [][Next]_vars

\* A step of the running process: any step but the start of an invocation.
ProcessStep == Next /\ run' = run

\* ------------------------------------------------- killMountProcess alone

\* Any PID file and any process table; killMountProcess is then called up to
\* MaxReaps times in succession, nothing else touching the file or the table.
InitReaper ==
    /\ Fresh
    /\ pc = "reaper"
    /\ pidFile \in {<<>>} \cup {<<c>> : c \in Contents}
    /\ procs \in [Pids -> Executables \cup {NotRunning}]

Reap(io) ==
    /\ pc = "reaper"
    /\ Len(reaps) < MaxReaps
    /\ LET r == killMountProcess(pidFile, procs, io) IN
        /\ pidFile' = r.pidFile
        /\ procs' = r.procs
        /\ kills' = kills \cup r.kills
        /\ reaps' = Append(reaps, [pre |-> pidFile, table |-> procs, io |-> io,
                                   err |-> r.err, post |-> r.pidFile,
                                   after |-> r.procs, kills |-> r.kills])
    /\ UNCHANGED <<machineDir, profileDir, metadata, creds, pointer, rootExists, flags, pc,
                   final, i, cur, handles, cc, run, started, log, lastErr, fails, hostReq, hostOut, mutated,
                   touched, purged, completed>>

NextReaper == \E io \in ReapIO : Reap(io)

SpecReaper == InitReaper /\ [][NextReaper]_vars

\* ------------------------------------------------------------ properties
Last(sq) == sq[Len(sq)]
Range(sq) == {sq[k] : k \in DOMAIN sq}
InTeardown == log # <<>>

\* The steps of deleteProfile in source order, with or without the uninstall.
Order(withUninstall) ==
    <<"Set", "NewAPIClient", "Load">>
        \o (IF withUninstall THEN <<"uninstallKubernetes">> ELSE <<>>)
        \o <<"killMountProcess", "DeleteHost", "deleteProfileDirectory", "DeleteProfile",
             "DeleteContext", "Unset", "Close">>
InOrder(l) ==
    \E u \in BOOLEAN : Len(l) <= Len(Order(u)) /\ l = SubSeq(Order(u), 1, Len(l))

\* C1 (as claimed): with purge set, force not set and more than one profile
\* known, whatever the enumeration returns, the invocation mutates nothing:
\* no deleteProfile call, no change of persisted or OS state, no Kill, no
\* purge, no handle.
C1_GuardZeroMutations ==
    (purgeFlag /\ ~forceFlag /\ Len(known) > 1)
        => (~mutated /\ started = <<>> /\ kills = {} /\ ~purged /\ handles = 0
            /\ (pc = "final" => final \in {"guardReturn", ExitFailure}))

\* C2: the root is purged, or about to be, only when deleteProfile has been
\* called for every enumerated profile.
C2_PurgeAfterAllTeardowns ==
    (purged \/ pc = "purge") => started = validProfiles

C2_Witness == purged /\ Len(validProfiles) = NumProfiles /\ started = validProfiles

\* C3: once an error of Load, uninstallKubernetes, killMountProcess or
\* DeleteHost has been printed, the call still runs its steps in source order:
\* it is at the step that follows the one executed last, and the process ends
\* only in deleteProfileDirectory or a later step.
C3_SoftFailuresDoNotAbort ==
    (InTeardown /\ fails # {}) =>
        IF pc = "final"
        THEN /\ InOrder(log)
             /\ Last(log) \in {"deleteProfileDirectory", "DeleteProfile", "DeleteContext", "Unset"}
        ELSE InOrder(Append(log, pc))

C3_Witness ==
    /\ pc = "Close"
    /\ fails = {"uninstallKubernetes", "killMountProcess", "DeleteHost"}
    /\ cur \notin machineDir \cup profileDir \cup metadata \cup creds
    /\ pointer = <<>>

\* C4 (as claimed): during a deleteProfile call the process ends with nonzero
\* status exactly when Set, DeleteProfile (other than not-found),
\* DeleteContext or Unset failed.
C4_FatalOnlyInFourSteps ==
    InTeardown =>
        ((pc = "final" /\ final = ExitFailure)
            <=> (Last(log) \in {"Set", "DeleteProfile", "DeleteContext", "Unset"}
                 /\ lastErr = "err"))

\* C4 (amended): ... exactly when Set, NewAPIClient, deleteProfileDirectory,
\* DeleteProfile (other than not-found), DeleteContext or Unset failed; a
\* failure of Load, uninstallKubernetes, killMountProcess or DeleteHost never
\* ends the process.
C4_FatalExactlyInSixSteps ==
    InTeardown =>
        /\ (pc = "final" /\ final = ExitFailure)
            <=> (Last(log) \in {"Set", "NewAPIClient", "deleteProfileDirectory",
                                "DeleteProfile", "DeleteContext", "Unset"}
                 /\ lastErr = "err")
        /\ Last(log) \in {"Load", "uninstallKubernetes", "killMountProcess", "DeleteHost"}
            => pc # "final"

C4_Witness ==
    /\ InTeardown
    /\ pc = "final" /\ final = ExitFailure
    /\ Last(log) = "deleteProfileDirectory"
    /\ cur \in profileDir

\* C5: when DeleteProfile reports not-found the process ends at once with
\* success status: DeleteContext and Unset are not executed (the pointer stays
\* on the profile), no later profile is visited, nothing is purged, and no
\* artifact of another profile has changed during the call.
C5_NotFoundExitsWithSuccess ==
    /\ (InTeardown /\ lastErr = "notexist") => (pc = "final" /\ final = ExitSuccess)
    /\ (pc = "final" /\ final = ExitSuccess) =>
        /\ Last(log) = "DeleteProfile" /\ lastErr = "notexist"
        /\ cur \notin metadata
        /\ Range(log) \cap {"DeleteContext", "Unset", "Close"} = {}
        /\ pointer = <<cur>>
        /\ i <= Len(validProfiles) /\ validProfiles[i] = cur
        /\ started = SubSeq(validProfiles, 1, i)
        /\ ~purged
        /\ touched \subseteq {cur}

C5_Witness ==
    /\ pc = "final" /\ final = ExitSuccess
    /\ purgeFlag
    /\ i < Len(validProfiles)
    /\ validProfiles[i + 1] \in metadata \cap machineDir \cap profileDir \cap creds

\* C6 (as claimed): a profile whose configuration loaded with the "none"
\* driver gets the uninstall and no host-deletion request; every other
\* profile gets the host-deletion request and no uninstall.
C6_UninstallInsteadOfDeleteHost ==
    (InTeardown /\ "DeleteHost" \in Range(log)) =>
        IF cc.err = "nil" /\ cc.driver = DriverNone
        THEN "uninstallKubernetes" \in Range(log) /\ hostReq = {}
        ELSE "uninstallKubernetes" \notin Range(log) /\ hostReq = {cur}

\* C6 (amended): uninstallKubernetes is called exactly for a profile whose
\* configuration loaded with the "none" driver, and DeleteHost is requested
\* for every profile, that one included, once the call gets to that step.
C6_UninstallThenDeleteHost ==
    InTeardown =>
        /\ "killMountProcess" \in Range(log) =>
            (("uninstallKubernetes" \in Range(log))
                <=> (cc.err = "nil" /\ cc.driver = DriverNone))
        /\ hostReq = IF "DeleteHost" \in Range(log) THEN {cur} ELSE {}

C6_Witness ==
    /\ pc = "Close"
    /\ cc.err = "nil" /\ cc.driver = DriverNone
    /\ "uninstallKubernetes" \in Range(log)
    /\ hostReq = {cur}

PidOf(r) == r.pre[1].pid
Parsed(r) == r.pre # <<>> /\ r.pre[1].parses
Stale(r) == Parsed(r) /\ r.table[PidOf(r)] = NotRunning
Live(r) == Parsed(r) /\ r.table[PidOf(r)] \in Executables
Looked(r) == ~Fails(r.io, "ReadFile") /\ ~Fails(r.io, "ps.FindProcess")

\* C8: a call that finds a PID file whose PID is not in the process table
\* sends no signal; it removes the file and returns nil, or, when os.Remove
\* fails, returns that error with the file in place.
C8_StalePidFileRemoved ==
    \A k \in DOMAIN reaps :
        LET r == reaps[k] IN
        Stale(r) =>
            /\ r.kills = {} /\ r.after = r.table
            /\ Looked(r) =>
                IF Fails(r.io, "Remove")
                THEN r.post = r.pre /\ r.err = "Removing stale pid"
                ELSE r.post = <<>> /\ r.err = "nil"

C8_Witness ==
    \E k \in DOMAIN reaps :
        Stale(reaps[k]) /\ reaps[k].post = <<>> /\ reaps[k].err = "nil"
            /\ reaps[k].kills = {}

\* C9 (as claimed): a call that finds a PID file whose PID is in the process
\* table always calls Kill on that PID.
C9_LivePidAlwaysKilled ==
    \A k \in DOMAIN reaps :
        LET r == reaps[k] IN
        (Live(r) /\ Looked(r)) => r.kills = {PidOf(r)}

\* C9 (amended): ... calls Kill on that PID, whatever executable it runs,
\* unless os.FindProcess fails; then it returns that error, no Kill called
\* and the file in place.
C9_LivePidKilledUnlessFindFails ==
    \A k \in DOMAIN reaps :
        LET r == reaps[k] IN
        (Live(r) /\ Looked(r)) =>
            IF Fails(r.io, "os.FindProcess")
            THEN r.kills = {} /\ r.err = "os.FindProcess" /\ r.post = r.pre
            ELSE r.kills = {PidOf(r)}

C9_Witness ==
    \E k \in DOMAIN reaps :
        /\ Live(reaps[k]) /\ reaps[k].table[PidOf(reaps[k])] = "other"
        /\ reaps[k].kills = {PidOf(reaps[k])}

C12_OtherProfilesUntouched ==
    InTeardown => touched \subseteq {cur}

C12_Witness ==
    /\ pc = "Close"
    /\ touched = {cur}
    /\ cur \notin machineDir \cup profileDir \cup metadata \cup creds
    /\ \E q \in Profiles \ {cur} : q \in machineDir \cap profileDir \cap metadata \cap creds

\* ---- runDelete, continued

\* C13 (as claimed): with purge set, force not set and exactly one profile
\* enumerated the guard does not trigger, deleteProfile is called for that
\* profile and, once it has returned, the invocation ends with the root
\* removed; with purge not set the root is not removed.
C13_SingleProfilePurgeRemovesRoot ==
    /\ (purgeFlag /\ ~forceFlag /\ Len(validProfiles) = 1) =>
        /\ final # "guardReturn"
        /\ (pc = "purge" \/ (pc = "final" /\ i = 2)) => started = validProfiles
        /\ (pc = "final" /\ i = 2) => (purged /\ ~rootExists)
    /\ ~purgeFlag => ~purged

\* C13 (amended): ... once it has returned, os.RemoveAll of the root is
\* called: the root is removed and runDelete returns, or RemoveAll fails and
\* the process ends with nonzero status, the root not removed.  With purge not
\* set RemoveAll of the root is never called.
C13_SingleProfilePurgeAttemptsRemoval ==
    /\ (purgeFlag /\ ~forceFlag /\ Len(validProfiles) = 1) =>
        /\ final # "guardReturn"
        /\ (pc = "purge" \/ (pc = "final" /\ i = 2)) => started = validProfiles
        /\ (pc = "final" /\ i = 2) =>
            \/ final = "normalReturn" /\ purged /\ ~rootExists
            \/ final = ExitFailure /\ ~purged /\ (run = 1 => rootExists)
    /\ ~purgeFlag => ~purged
    /\ (run <= 1 /\ ~purged) => rootExists

C13_Witness ==
    /\ purgeFlag /\ ~forceFlag /\ Len(validProfiles) = 1
    /\ pc = "final" /\ final = "normalReturn"
    /\ started = validProfiles /\ validProfiles[1] \in completed
    /\ purged /\ ~rootExists

\* C14: in an invocation deleteProfile is called for the enumerated profiles
\* in enumeration order, no profile twice; the profiles before the one being
\* deleted have all returned from deleteProfile; and an invocation that
\* returns has called deleteProfile once for every enumerated profile.
C14_TeardownsInEnumerationOrder ==
    /\ Len(started) <= Len(validProfiles)
    /\ started = SubSeq(validProfiles, 1, Len(started))
    /\ \A x, y \in DOMAIN started : x # y => started[x] # started[y]
    /\ InTeardown => (Len(started) = i /\ cur = started[i])
    /\ (pc \in {"loop", "Set", "purge"}) => Len(started) = i - 1
    /\ \A k \in DOMAIN started : (k < i) => started[k] \in completed
    /\ (pc = "final" /\ final = "normalReturn") =>
        (started = validProfiles /\ Range(started) \subseteq completed)

C14_Witness ==
    /\ pc = "final" /\ final = "normalReturn"
    /\ ~purgeFlag
    /\ Len(validProfiles) = NumProfiles
    /\ started = validProfiles

\* ---- killMountProcess, continued

\* C15: a call that called Kill returns nil with the PID file as it was when
\* Kill succeeded; when Kill failed it calls os.Remove on the PID file and
\* returns an error: that of Remove, with the file in place, when Remove
\* failed, and that of Kill, with the file removed, otherwise.
C15_AfterKill ==
    \A k \in DOMAIN reaps :
        LET r == reaps[k] IN
        r.kills # {} =>
            /\ r.pre # <<>>
            /\ IF ~Fails(r.io, "Kill")
               THEN r.err = "nil" /\ r.post = r.pre
               ELSE IF Fails(r.io, "Remove")
                    THEN r.err = "Removing likely stale unkillable pid" /\ r.post = r.pre
                    ELSE r.err = "Kill" /\ r.post = <<>>

C15_Witness ==
    \E k \in DOMAIN reaps :
        /\ reaps[k].kills # {}
        /\ Fails(reaps[k].io, "Kill") /\ ~Fails(reaps[k].io, "Remove")
        /\ reaps[k].err = "Kill" /\ reaps[k].post = <<>>

\* C16: a call that finds no PID file returns nil; a call that finds a PID
\* file whose contents are not a number returns an error (that of ReadFile
\* if the read failed, the parse error otherwise); either way Kill is called
\* on nothing, and the PID file and the process table are left as they were.
C16_EarlyReturns ==
    \A k \in DOMAIN reaps :
        LET r == reaps[k] IN
        /\ r.pre = <<>> => r.err = "nil"
        /\ (r.pre # <<>> /\ ~r.pre[1].parses) =>
            r.err = (IF Fails(r.io, "ReadFile") THEN "ReadFile" ELSE "error parsing pid")
        /\ (r.pre = <<>> \/ ~r.pre[1].parses) =>
            (r.kills = {} /\ r.post = r.pre /\ r.after = r.table)

C16_Witness ==
    \E k \in DOMAIN reaps :
        /\ reaps[k].pre # <<>> /\ ~reaps[k].pre[1].parses
        /\ reaps[k].err = "error parsing pid"
        /\ \E p \in Pids : reaps[k].table[p] \in Executables
        /\ reaps[k].post = reaps[k].pre /\ reaps[k].kills = {}

\* ---- deleteProfile: handle, pointer, exits

\* C17: at most one machine-API handle is open.  One is open exactly from the
\* successful NewAPIClient of a deleteProfile call on: it is still open when
\* Unset has succeeded and the call is about to return, it is released by
\* the return (before the loop goes on and the next one is acquired), and it
\* is still open when the process ends inside the call after NewAPIClient
\* succeeded.
C17_HandleScoping ==
    /\ handles \in {0, 1}
    /\ handles = 1 <=>
        /\ InTeardown
        /\ "NewAPIClient" \in Range(log)
        /\ ~(Last(log) = "NewAPIClient" /\ lastErr = "err")
    /\ pc = "Close" => (handles = 1 /\ Last(log) = "Unset" /\ lastErr = "ok")
    /\ pc \in {"loop", "Set", "NewAPIClient", "purge"} => handles = 0
    /\ (pc = "final" /\ final = "normalReturn") => handles = 0
    /\ (pc = "final" /\ final \in Exits /\ InTeardown
            /\ Last(log) \in {"deleteProfileDirectory", "DeleteProfile", "DeleteContext", "Unset"})
        => handles = 1

C17_Witness ==
    /\ InTeardown
    /\ pc = "final" /\ final = ExitFailure
    /\ i = 2 /\ validProfiles[1] \in completed
    /\ Last(log) = "Unset"
    /\ handles = 1

\* C18: the step in which Set fails ends the process with nonzero status and
\* changes nothing else: no handle is acquired, no host deletion or uninstall
\* is requested, Kill is called on nothing, and the PID file, the process
\* table and every directory, metadata entry and credentials entry are as
\* before the call; nothing runs after it.
C18_SetFailureExitsBeforeAnyEffect ==
    [][(pc = "Set" /\ lastErr' = "err") =>
          /\ pc' = "final" /\ final' = ExitFailure
          /\ log' = <<"Set">>
          /\ handles' = 0 /\ handles = 0
          /\ hostReq' = {} /\ hostOut' = {} /\ fails' = {}
          /\ UNCHANGED <<machineDir, profileDir, metadata, creds, pidFile, procs, rootExists,
                         kills, purged>>
          /\ ~(ENABLED ProcessStep)']_vars

C18_Witness ==
    /\ InTeardown
    /\ pc = "final" /\ final = ExitFailure
    /\ log = <<"Set">> /\ lastErr = "err"
    /\ i = 2
    /\ cur \in machineDir \cap profileDir \cap metadata \cap creds
    /\ pidFile # <<>>
    /\ handles = 0

\* C19: from the successful Set of a deleteProfile call until Unset, the
\* active-profile pointer names the profile of the call, also when the
\* process ends in between (NewAPIClient, deleteProfileDirectory,
\* DeleteProfile with not-found or another error, DeleteContext); an
\* invocation that returns after deleting at least one profile leaves the
\* pointer unset.
C19_PointerNamesProfileInTeardown ==
    /\ pc \in {"NewAPIClient", "Load", "uninstallKubernetes", "killMountProcess", "DeleteHost",
               "deleteProfileDirectory", "DeleteProfile", "DeleteContext", "Unset"}
        => pointer = <<cur>>
    /\ (pc = "final" /\ InTeardown
            /\ Last(log) \in {"NewAPIClient", "deleteProfileDirectory", "DeleteProfile",
                              "DeleteContext"})
        => (final \in Exits /\ pointer = <<cur>>)
    /\ pc = "Close" => pointer = <<>>
    /\ (pc = "final" /\ final = "normalReturn" /\ Len(validProfiles) >= 1)
        => (started = validProfiles /\ pointer = <<>>)

C19_Witness ==
    /\ InTeardown
    /\ pc = "final" /\ final = ExitFailure
    /\ Last(log) = "DeleteContext"
    /\ pointer = <<cur>>
    /\ cur \in creds /\ cur \notin metadata

\* ---- termination

\* The positions of an invocation in source order ("idle": not started), and
\* a measure that every step of the process decreases: the profiles left to
\* delete, then the positions left in the current pass.
Positions ==
    <<"idle", "ListProfiles", "guard", "loop", "Set", "NewAPIClient", "Load", "uninstallKubernetes",
      "killMountProcess", "DeleteHost", "deleteProfileDirectory", "DeleteProfile",
      "DeleteContext", "Unset", "Close", "purge", "final">>
Rank(p) == CHOOSE k \in DOMAIN Positions : Positions[k] = p
Measure == (Len(known) + 1 - i) * Len(Positions) + (Len(Positions) - Rank(pc))
Running == pc \notin {"idle", "final"}

\* C20: an invocation ends, and in exactly one way.  While it runs the process
\* always has a step to take and every step decreases a non-negative measure,
\* so that after finitely many steps it is at the final position; there it
\* has returned after the guard, returned normally, exited with success or
\* exited with nonzero status; and nothing of the invocation runs after that
\* (no step of deleteProfile, no purge): the only step from a final position
\* starts another invocation.
C20_InvocationEndsOnce ==
    /\ [](pc = "final" <=> final \in {"guardReturn", "normalReturn", ExitSuccess, ExitFailure})
    /\ [](pc # "final" => final = "none")
    /\ [](Running => ENABLED ProcessStep)
    /\ [](Measure >= 0)
    /\ [][Running => Measure' < Measure]_vars
    /\ [][pc = "final" => (run' # run /\ ~ENABLED ProcessStep)]_vars

C20_Witness ==
    /\ InTeardown
    /\ pc = "final" /\ final = ExitSuccess
    /\ run = MaxRuns
    /\ i < Len(validProfiles)
    /\ purgeFlag /\ ~purged
====
